---------------------------- MODULE Spec2Model ----------------------------
(***************************************************************************)
(* A model of server.js: the mock EdgeImpulseClassifier, the feature       *)
(* extractor, interpretResults, and the POST /api/analyze-audio handler    *)
(* with the multer disk storage that stages each upload.                   *)
(*                                                                         *)
(* Numbers.  Scores are JavaScript doubles in [0,1].  The model keeps them *)
(* as integers counted in units of 1/Scale, so 1.0 is Scale and 0.5 is     *)
(* Half.  Math.random() is a draw k/RandomSteps with k in                  *)
(* 0..RandomSteps-1, which keeps its range [0,1).                          *)
(***************************************************************************)
EXTENDS Integers, Sequences, FiniteSets, TLC

VARIABLES
    initialized,   \* EdgeImpulseClassifier._initialized
    logged,        \* number of 'Mock classifier initialized' lines written
    calls,         \* method calls made on the classifier by a direct caller
    lastCall,      \* the last such call with what it returned
    listening,     \* app.listen has been called
    now,           \* Date.now()
    fs,            \* ./uploads/: path -> staged content, or NoFile
    pc,            \* per request: where its upload / handler stands
    reqFile,       \* per request: req.file while the request is in flight
    readFrom,      \* per request: the content readFileSync returned
    features,      \* per request: the vector processAudioFile resolved with
    thrown,        \* per request: message of the error the handler caught
    unlinks,       \* per request: fs.unlinkSync calls made by its handler
    response,      \* per request: the response sent
    leftover,      \* per request: its staged path existed when it responded
    irInput,       \* the ClassificationResult handed to interpretResults
    irOutput,      \* what interpretResults returned for irInput
    irPrev         \* input and output of the call before a reordering

vars == <<initialized, logged, calls, lastCall, listening, now, fs, pc,
          reqFile, readFrom, features, thrown, unlinks, response, leftover,
          irInput, irOutput, irPrev>>

classifierVars == <<initialized, logged, calls, lastCall>>
serverVars == <<listening, now, fs, pc, reqFile, readFrom, features, thrown,
                unlinks, response, leftover>>
interpretVars == <<irInput, irOutput, irPrev>>

----------------------------------------------------------------------------
(* Bounds *)

\* Math.random() takes the values k/RandomSteps, k in 0..RandomSteps-1.
RandomSteps == 3
\* Concurrent upload requests.
NumRequests == 2
\* Date.now() runs from 0 to MaxTime.
MaxTime == 1
\* Scores in a ClassificationResult handed to interpretResults directly.
MaxScores == 2
\* Method calls a direct caller makes on the classifier.
MaxCalls == 6

----------------------------------------------------------------------------
(* Program constants *)

\* 1.0 in score units: a tenth of a draw step is one unit.
Scale == 10 * RandomSteps
\* The literal 0.5 of interpretResults.
Half == 5 * RandomSteps
\* config.model.threshold
threshold == 5 * RandomSteps
\* The literal 0.6 of classify.
anomalyCut == 6 * RandomSteps
\* const numFeatures = 128 in extractFeaturesFromAudio
numFeatures == 128
\* config.audio.numFeatures
configNumFeatures == 13
\* config.model.inputLength
inputLength == 13
\* audioBuffer.length % 1000
seedModulus == 1000

Some(x) == <<x>>
None == <<>>

----------------------------------------------------------------------------
(* String.prototype.toLowerCase and String.prototype.includes *)

UpperLetters == "ABCDEFGHIJKLMNOPQRSTUVWXYZ"
LowerLetters == "abcdefghijklmnopqrstuvwxyz"

\* The lower-case form of each upper-case letter.
LowerOf ==
    [c \in {SubSeq(UpperLetters, i, i) : i \in 1..Len(UpperLetters)} |->
        LET i == CHOOSE j \in 1..Len(UpperLetters) :
                     SubSeq(UpperLetters, j, j) = c
        IN  SubSeq(LowerLetters, i, i)]

LowerChar(c) == IF c \in DOMAIN LowerOf THEN LowerOf[c] ELSE c

RECURSIVE toLowerCase(_)
toLowerCase(s) ==
    IF Len(s) = 0 THEN s
    ELSE LowerChar(SubSeq(s, 1, 1)) \o toLowerCase(SubSeq(s, 2, Len(s)))

includes(s, sub) ==
    \E i \in 1..(Len(s) - Len(sub) + 1) : SubSeq(s, i, i + Len(sub) - 1) = sub

----------------------------------------------------------------------------
(* interpretResults *)

\* r => r.label.toLowerCase().includes('parkinson') || ...includes('positive')
IsParkinsonLabel(l) ==
    includes(toLowerCase(l), "parkinson") \/ includes(toLowerCase(l), "positive")

\* r => r.label.toLowerCase().includes('healthy') || ...includes('negative')
IsHealthyLabel(l) ==
    includes(toLowerCase(l), "healthy") \/ includes(toLowerCase(l), "negative")

\* Array.prototype.find: hits[i] is the callback's value on element i; the
\* index of the first element it accepts, 0 for undefined.
find(hits) ==
    IF \E i \in 1..Len(hits) : hits[i]
    THEN CHOOSE i \in 1..Len(hits) : hits[i] /\ \A j \in 1..(i - 1) : ~hits[j]
    ELSE 0

\* result.results.find(r => ...'parkinson' || ...'positive')
findParkinson(results) ==
    find([i \in 1..Len(results) |-> IsParkinsonLabel(results[i].label)])

\* result.results.find(r => ...'healthy' || ...'negative')
findHealthy(results) ==
    find([i \in 1..Len(results) |-> IsHealthyLabel(results[i].label)])

\* (x * 100).toFixed(1), in tenths of a percent, rounding half up.
toFixed1(v) == (2 * 1000 * v + Scale) \div (2 * Scale)

\* A variant that takes the positive score by position (the mock
\* classifier's second entry) instead of by label.
interpretResultsPositional(result) ==
    LET parkinsonResult == IF Len(result.results) >= 2 THEN 2 ELSE 0
        healthyResult == IF Len(result.results) >= 1 THEN 1 ELSE 0
    IN  IF parkinsonResult # 0
        THEN LET p == result.results[parkinsonResult].value
                 hasParkinson == p > Half
                 confidence ==
                     IF hasParkinson THEN p
                     ELSE IF healthyResult # 0
                          THEN result.results[healthyResult].value
                          ELSE Scale - p
             IN  [hasParkinson |-> hasParkinson,
                  confidence |-> confidence,
                  message |-> IF hasParkinson
                              THEN <<"may indicate", toFixed1(p)>>
                              ELSE <<"did not detect", toFixed1(confidence)>>]
        ELSE [hasParkinson |-> result.anomaly,
              confidence |-> Half,
              message |-> <<"inconclusive">>]

\* A variant whose verdict uses >= 0.5 and whose negative branch ignores
\* the healthy score.
interpretResultsLoose(result) ==
    LET parkinsonResult == findParkinson(result.results)
    IN  IF parkinsonResult # 0
        THEN LET p == result.results[parkinsonResult].value
                 hasParkinson == p >= Half
                 confidence == IF hasParkinson THEN p ELSE Scale - p
             IN  [hasParkinson |-> hasParkinson,
                  confidence |-> confidence,
                  message |-> IF hasParkinson
                              THEN <<"may indicate", toFixed1(p)>>
                              ELSE <<"did not detect", toFixed1(confidence)>>]
        ELSE [hasParkinson |-> result.anomaly,
              confidence |-> Half,
              message |-> <<"inconclusive">>]

\* A variant that leaves the fallback only for labels containing
\* 'parkinson', forgetting 'positive'.
interpretResultsNarrow(result) ==
    LET OnlyParkinson(l) == includes(toLowerCase(l), "parkinson")
        parkinsonResult ==
            find([i \in 1..Len(result.results) |->
                      OnlyParkinson(result.results[i].label)])
        healthyResult == findHealthy(result.results)
    IN  IF parkinsonResult # 0
        THEN LET p == result.results[parkinsonResult].value
                 hasParkinson == p > Half
                 confidence ==
                     IF hasParkinson THEN p
                     ELSE IF healthyResult # 0
                          THEN result.results[healthyResult].value
                          ELSE Scale - p
             IN  [hasParkinson |-> hasParkinson,
                  confidence |-> confidence,
                  message |-> IF hasParkinson
                              THEN <<"may indicate", toFixed1(p)>>
                              ELSE <<"did not detect", toFixed1(confidence)>>]
        ELSE [hasParkinson |-> result.anomaly,
              confidence |-> Half,
              message |-> <<"inconclusive">>]

\* The message is kept as its template and the percentage embedded in it.
interpretResults(result) ==
    LET parkinsonResult == findParkinson(result.results)
        healthyResult == findHealthy(result.results)
    IN  IF parkinsonResult # 0
        THEN LET p == result.results[parkinsonResult].value
                 hasParkinson == p > Half
                 confidence ==
                     IF hasParkinson THEN p
                     ELSE IF healthyResult # 0
                          THEN result.results[healthyResult].value
                          ELSE Scale - p
             IN  [hasParkinson |-> hasParkinson,
                  confidence |-> confidence,
                  message |-> IF hasParkinson
                              THEN <<"may indicate", toFixed1(p)>>
                              ELSE <<"did not detect", toFixed1(confidence)>>]
        ELSE \* Fallback if no clear classification
             [hasParkinson |-> result.anomaly,
              confidence |-> Half,
              message |-> <<"inconclusive">>]

----------------------------------------------------------------------------
(* EdgeImpulseClassifier *)

getProjectInfo ==
    [owner |-> "Demo", name |-> "Parkinsons Speech Analysis", version |-> "1.0.0"]

\* classify(rawData): rnd is the Math.random() draw, rnd/RandomSteps.
\* healthyScore = rnd/RandomSteps * 0.4 + 0.3 ; parkinsonScore = 1 - healthyScore
classify(rawData, rnd) ==
    LET healthyScore == 4 * rnd + 3 * RandomSteps
        parkinsonScore == Scale - healthyScore
    IN  [anomaly |-> parkinsonScore > anomalyCut,
         results |-> << [label |-> "healthy", value |-> healthyScore],
                        [label |-> "parkinson", value |-> parkinsonScore] >>]

Randoms == 0..(RandomSteps - 1)

\* init() without the early return of its first line.
initUnguarded ==
    /\ initialized' = TRUE
    /\ logged' = logged + 1

\* async init(): its body runs synchronously up to the returned promise.
init ==
    IF initialized = TRUE
    THEN UNCHANGED <<initialized, logged>>
    ELSE /\ initialized' = TRUE
         /\ logged' = logged + 1

----------------------------------------------------------------------------
(* The classifier used directly: any method, in any order, on the object as *)
(* constructed.                                                             *)

\* A feature vector of n zeros, as a direct caller may pass.
Zeros(n) == [i \in 1..n |-> 0]

CallLengths == {0, inputLength, numFeatures}

CallInit ==
    /\ calls < MaxCalls
    /\ init
    /\ calls' = calls + 1
    /\ lastCall' = [op |-> "init", wasInitialized |-> initialized,
                    loggedBefore |-> logged, argLength |-> 0,
                    threw |-> "", ret |-> None]
    /\ UNCHANGED <<serverVars, interpretVars>>

CallGetProjectInfo ==
    /\ calls < MaxCalls
    /\ calls' = calls + 1
    /\ lastCall' = [op |-> "getProjectInfo", wasInitialized |-> initialized,
                    loggedBefore |-> logged, argLength |-> 0,
                    threw |-> "", ret |-> Some(getProjectInfo)]
    /\ UNCHANGED <<initialized, logged, serverVars, interpretVars>>

\* classify has no throw statement and reads neither rawData nor
\* _initialized.
CallClassify ==
    /\ calls < MaxCalls
    /\ \E n \in CallLengths, rnd \in Randoms :
           lastCall' = [op |-> "classify", wasInitialized |-> initialized,
                        loggedBefore |-> logged, argLength |-> n,
                        threw |-> "", ret |-> Some(classify(Zeros(n), rnd))]
    /\ calls' = calls + 1
    /\ UNCHANGED <<initialized, logged, serverVars, interpretVars>>

----------------------------------------------------------------------------
(* interpretResults applied to bounded ClassificationResults *)

Labels == {"healthy", "parkinson", "POSITIVE", "Negative", "A", "B",
           "Parkinson-negative"}

\* In-range scores up to, at and just above 0.5, and one above 1.
ScoreValues == {0, Half, Half + 1, Scale + 1}

ClassScore == [label : Labels, value : ScoreValues]

UniqueLabels(rs) ==
    \A i, j \in 1..Len(rs) : i # j => rs[i].label # rs[j].label

ScoreLists ==
    UNION {{rs \in [1..n -> ClassScore] : UniqueLabels(rs)} : n \in 0..MaxScores}

ClassificationResults == [anomaly : BOOLEAN, results : ScoreLists]

Bijections(n) ==
    {f \in [1..n -> 1..n] : \A i, j \in 1..n : i # j => f[i] # f[j]}

Reordered(result, f) ==
    [result EXCEPT !.results = [i \in 1..Len(result.results) |->
                                   result.results[f[i]]]]

Interpret ==
    /\ irOutput = None
    /\ irOutput' = Some(interpretResults(irInput))
    /\ UNCHANGED <<irInput, irPrev, classifierVars, serverVars>>

\* The same scores in another order, interpreted again.
InterpretReordered ==
    /\ irOutput # None
    /\ irPrev = None
    /\ \E f \in Bijections(Len(irInput.results)) :
           /\ irInput' = Reordered(irInput, f)
           /\ irOutput' = Some(interpretResults(Reordered(irInput, f)))
    /\ irPrev' = Some([input |-> irInput, output |-> irOutput[1]])
    /\ UNCHANGED <<classifierVars, serverVars>>

----------------------------------------------------------------------------
(* The server: multer disk storage and POST /api/analyze-audio *)

Requests == 1..NumRequests
Times == 0..MaxTime
\* file.originalname of an upload
Names == {"a.wav", "b.wav"}
\* Byte lengths of an upload: empty, and one past the seed modulus.
Sizes == {0, seedModulus + 1}

\* storage.filename: Date.now() + '-' + file.originalname
filename(t, originalname) == ToString(t) \o "-" \o originalname

\* multer joins destination './uploads/' and the file name.
pathOf(name) == "uploads/" \o name

Paths == {pathOf(filename(t, n)) : t \in Times, n \in Names}

\* The sin argument seed + i of every entry; the Math.random() term added
\* to it is left out, no code reads the entries.
extractFeaturesFromAudio(audioBufferLength) ==
    LET seed == audioBufferLength % seedModulus
    IN  [i \in 1..numFeatures |-> seed + (i - 1)]

\* if (fs.existsSync(path)) fs.unlinkSync(path)
unlinkIfExists(files, path) ==
    IF files[path] # None THEN [files EXCEPT ![path] = None] ELSE files

unlinkCount(files, path) == IF files[path] # None THEN 1 ELSE 0

\* classifier.init().then(() => app.listen(port))
Startup ==
    /\ ~listening
    /\ init
    /\ listening' = TRUE
    /\ UNCHANGED <<calls, lastCall, now, fs, pc, reqFile, readFrom, features,
                   thrown, unlinks, response, leftover, interpretVars>>

Tick ==
    /\ now < MaxTime
    /\ now' = now + 1
    /\ UNCHANGED <<classifierVars, listening, fs, pc, reqFile, readFrom,
                   features, thrown, unlinks, response, leftover,
                   interpretVars>>

\* Requests are numbered in the order they arrive.
NextToArrive(r) ==
    /\ pc[r] = "idle"
    /\ \A q \in Requests : q < r => pc[q] # "idle"

\* upload.single('audio') meets the file part: the name is fixed now, the
\* bytes are written afterwards.
UploadBegin(r) ==
    /\ listening
    /\ NextToArrive(r)
    /\ \E n \in Names, size \in Sizes :
           reqFile' = [reqFile EXCEPT ![r] =
                           Some([originalname |-> n,
                                 filename |-> filename(now, n),
                                 path |-> pathOf(filename(now, n)),
                                 size |-> size])]
    /\ pc' = [pc EXCEPT ![r] = "uploading"]
    /\ UNCHANGED <<classifierVars, listening, now, fs, readFrom, features,
                   thrown, unlinks, response, leftover, interpretVars>>

\* The write stream to the path finishes: the path now holds this
\* request's bytes, whatever it held before.
UploadStored(r) ==
    /\ pc[r] = "uploading"
    /\ fs' = [fs EXCEPT ![reqFile[r][1].path] =
                  Some([owner |-> r, size |-> reqFile[r][1].size])]
    /\ pc' = [pc EXCEPT ![r] = "staged"]
    /\ UNCHANGED <<classifierVars, listening, now, reqFile, readFrom, features,
                   thrown, unlinks, response, leftover, interpretVars>>

\* A request without a file part: if (!req.file) return 400.
AnalyzeNoFile(r) ==
    /\ listening
    /\ NextToArrive(r)
    /\ response' = [response EXCEPT ![r] =
                        Some([status |-> 400, success |-> FALSE,
                              error |-> "No audio file uploaded"])]
    /\ pc' = [pc EXCEPT ![r] = "done"]
    /\ UNCHANGED <<classifierVars, listening, now, fs, reqFile, readFrom,
                   features, thrown, unlinks, leftover, interpretVars>>

\* The handler up to `await processAudioFile(req.file.path)`: existsSync,
\* readFileSync (which the file system may fail) and the extraction.
AnalyzeBegin(r) ==
    /\ pc[r] = "staged"
    /\ LET path == reqFile[r][1].path
       IN  IF fs[path] = None
           THEN /\ thrown' = [thrown EXCEPT ![r] = "Audio file not found"]
                /\ pc' = [pc EXCEPT ![r] = "rejected"]
                /\ UNCHANGED <<readFrom, features>>
           ELSE \E readOk \in BOOLEAN :
                    IF readOk
                    THEN /\ readFrom' = [readFrom EXCEPT ![r] = fs[path]]
                         /\ features' = [features EXCEPT ![r] =
                                Some(extractFeaturesFromAudio(fs[path][1].size))]
                         /\ pc' = [pc EXCEPT ![r] = "resolved"]
                         /\ UNCHANGED thrown
                    ELSE /\ thrown' = [thrown EXCEPT ![r] = "read failed"]
                         /\ pc' = [pc EXCEPT ![r] = "rejected"]
                         /\ UNCHANGED <<readFrom, features>>
    /\ UNCHANGED <<classifierVars, listening, now, fs, reqFile, unlinks,
                   response, leftover, interpretVars>>

\* The catch block without its clean-up.
AnalyzeCatchNoCleanup(r) ==
    /\ pc[r] = "rejected"
    /\ response' = [response EXCEPT ![r] =
                        Some([status |-> 500, success |-> FALSE,
                              error |-> "Failed to analyze audio",
                              details |-> thrown[r]])]
    /\ leftover' = [leftover EXCEPT ![r] = fs[reqFile[r][1].path] # None]
    /\ reqFile' = [reqFile EXCEPT ![r] = None]
    /\ pc' = [pc EXCEPT ![r] = "done"]
    /\ UNCHANGED <<classifierVars, listening, now, fs, readFrom, features,
                   thrown, unlinks, interpretVars>>

\* The handler after the await resolved: classify, clean up, interpret,
\* respond.  No await separates these statements.
AnalyzeFinish(r) ==
    /\ pc[r] = "resolved"
    /\ LET path == reqFile[r][1].path
       IN  /\ \E rnd \in Randoms :
                  LET result == classify(features[r][1], rnd)
                  IN  response' = [response EXCEPT ![r] =
                          Some([status |-> 200, success |-> TRUE,
                                result |-> result,
                                interpretation |-> interpretResults(result)])]
           /\ fs' = unlinkIfExists(fs, path)
           /\ unlinks' = [unlinks EXCEPT ![r] = @ + unlinkCount(fs, path)]
           /\ leftover' = [leftover EXCEPT ![r] = fs'[path] # None]
    /\ reqFile' = [reqFile EXCEPT ![r] = None]
    /\ pc' = [pc EXCEPT ![r] = "done"]
    /\ UNCHANGED <<classifierVars, listening, now, readFrom, features, thrown,
                   interpretVars>>

\* The catch block, entered when the await rejected.
AnalyzeCatch(r) ==
    /\ pc[r] = "rejected"
    /\ LET path == reqFile[r][1].path
       IN  /\ fs' = unlinkIfExists(fs, path)
           /\ unlinks' = [unlinks EXCEPT ![r] = @ + unlinkCount(fs, path)]
           /\ leftover' = [leftover EXCEPT ![r] = fs'[path] # None]
    /\ response' = [response EXCEPT ![r] =
                        Some([status |-> 500, success |-> FALSE,
                              error |-> "Failed to analyze audio",
                              details |-> thrown[r]])]
    /\ reqFile' = [reqFile EXCEPT ![r] = None]
    /\ pc' = [pc EXCEPT ![r] = "done"]
    /\ UNCHANGED <<classifierVars, listening, now, readFrom, features, thrown,
                   interpretVars>>

----------------------------------------------------------------------------
(* Specifications *)

\* The state once the module's top level has run up to the classifier's
\* construction (line 59), with ./uploads/ empty.
InitCommon ==
    /\ initialized = FALSE
    /\ logged = 0
    /\ calls = 0
    /\ lastCall = [op |-> "none", wasInitialized |-> FALSE, loggedBefore |-> 0,
                   argLength |-> 0, threw |-> "", ret |-> None]
    /\ listening = FALSE
    /\ now = 0
    /\ fs = [p \in Paths |-> None]
    /\ pc = [r \in Requests |-> "idle"]
    /\ reqFile = [r \in Requests |-> None]
    /\ readFrom = [r \in Requests |-> None]
    /\ features = [r \in Requests |-> None]
    /\ thrown = [r \in Requests |-> ""]
    /\ unlinks = [r \in Requests |-> 0]
    /\ response = [r \in Requests |-> None]
    /\ leftover = [r \in Requests |-> FALSE]
    /\ irOutput = None
    /\ irPrev = None

Init ==
    /\ InitCommon
    /\ irInput = [anomaly |-> FALSE, results |-> <<>>]

Next ==
    \/ Startup
    \/ Tick
    \/ \E r \in Requests : UploadBegin(r)
    \/ \E r \in Requests : UploadStored(r)
    \/ \E r \in Requests : AnalyzeNoFile(r)
    \/ \E r \in Requests : AnalyzeBegin(r)
    \/ \E r \in Requests : AnalyzeFinish(r)
    \/ \E r \in Requests : AnalyzeCatch(r)

\* The server.
Spec == Init /\ [][Next]_vars

NextClassifier == CallInit \/ CallGetProjectInfo \/ CallClassify

\* The classifier object under a direct caller.
SpecClassifier == Init /\ [][NextClassifier]_vars

InitInterpret ==
    /\ InitCommon
    /\ irInput \in ClassificationResults

NextInterpret == Interpret \/ InterpretReordered

\* interpretResults over the bounded ClassificationResults.
SpecInterpret == InitInterpret /\ [][NextInterpret]_vars

----------------------------------------------------------------------------
(* Properties *)

Done(r) == pc[r] = "done"
\* The request has been answered and had arrived with a staged file.
AnsweredUpload(r) == Done(r) /\ response[r][1].status # 400
InFlight(r) == reqFile[r] # None

\* C1: every request that arrived with a staged file has, when its
\* response is sent (success or failure), no file left at its staged path,
\* and its handler has unlinked at most once.
C1_StagedFileReleased ==
    \A r \in Requests :
        AnsweredUpload(r) => (leftover[r] = FALSE /\ unlinks[r] <= 1)

\* C1 witness: a request whose read failed has answered 500 after its catch
\* block removed the staged file.
C1_Witness ==
    \E r \in Requests :
        /\ AnsweredUpload(r)
        /\ response[r][1].status = 500
        /\ thrown[r] = "read failed"
        /\ unlinks[r] = 1
        /\ leftover[r] = FALSE

\* C2: concurrent uploads are staged under pairwise different names, each
\* request reads only the bytes it uploaded, none fails because its file
\* is gone, and each staged file is removed exactly once.
C2_UniqueStaging ==
    /\ \A r1, r2 \in Requests :
           (r1 # r2 /\ InFlight(r1) /\ InFlight(r2))
               => reqFile[r1][1].path # reqFile[r2][1].path
    /\ \A r \in Requests :
           /\ readFrom[r] # None => readFrom[r][1].owner = r
           /\ thrown[r] # "Audio file not found"
           /\ AnsweredUpload(r) => unlinks[r] = 1

\* C3: classify on a classifier whose init has not been called signals
\* NotInitializedError and returns no result.
C3_ClassifyBeforeInitSignals ==
    (lastCall.op = "classify" /\ lastCall.wasInitialized = FALSE)
        => (lastCall.threw = "NotInitializedError" /\ lastCall.ret = None)

\* C4: after an init call the classifier is initialized and the call did
\* not raise; an init call on an initialized classifier changed no state;
\* getProjectInfo returns the same record whenever it is called.
C4_InitIdempotent ==
    /\ lastCall.op = "init" =>
           /\ initialized = TRUE
           /\ lastCall.threw = ""
           /\ lastCall.wasInitialized = TRUE => logged = lastCall.loggedBefore
    /\ logged > 0 => initialized = TRUE
    /\ lastCall.op = "getProjectInfo" =>
           lastCall.ret = <<[owner |-> "Demo",
                             name |-> "Parkinsons Speech Analysis",
                             version |-> "1.0.0"]>>

\* C4 witness: init has just been called on an initialized classifier.
C4_Witness ==
    /\ lastCall.op = "init"
    /\ lastCall.wasInitialized = TRUE
    /\ initialized = TRUE
    /\ logged = 1

\* C5: every result of classify has its scores in [0,1] and anomaly true
\* exactly when the parkinson score is above the configured threshold.
C5_AnomalyMatchesThreshold ==
    lastCall.op = "classify" =>
        LET res == lastCall.ret[1]
        IN  /\ \A i \in 1..Len(res.results) :
                   res.results[i].value >= 0 /\ res.results[i].value <= Scale
            /\ \A i \in 1..Len(res.results) :
                   res.results[i].label = "parkinson" =>
                       (res.anomaly <=> res.results[i].value > threshold)

\* The label patterns, written out for the properties.
NamesPositive(l) ==
    \/ includes(toLowerCase(l), "parkinson")
    \/ includes(toLowerCase(l), "positive")
NamesNegative(l) ==
    \/ includes(toLowerCase(l), "healthy")
    \/ includes(toLowerCase(l), "negative")
PositiveAt(rs) == {i \in 1..Len(rs) : NamesPositive(rs[i].label)}
NegativeAt(rs) == {i \in 1..Len(rs) : NamesNegative(rs[i].label)}
First(S) == CHOOSE i \in S : \A j \in S : i <= j
InRange(rs) == \A i \in 1..Len(rs) : rs[i].value >= 0 /\ rs[i].value <= Scale

\* C6: when a label matches 'parkinson'/'positive', hasParkinson is
\* (positive value > 0.5); confidence is the positive value if hasParkinson,
\* else the healthy/negative value if there is one, else 1 - positive value;
\* confidence is in [0,1] when all scores are.
C6_PositiveBranch ==
    (irOutput # None /\ PositiveAt(irInput.results) # {}) =>
        LET rs == irInput.results
            out == irOutput[1]
            p == rs[First(PositiveAt(rs))].value
        IN  /\ out.hasParkinson = (p > Half)
            /\ out.confidence =
                   IF p > Half THEN p
                   ELSE IF NegativeAt(rs) # {}
                        THEN rs[First(NegativeAt(rs))].value
                        ELSE Scale - p
            /\ InRange(rs) => (out.confidence >= 0 /\ out.confidence <= Scale)

\* C6 witness: a positive score at most 0.5 and no healthy/negative score,
\* interpreted with confidence 1 - positive value.
C6_Witness ==
    /\ irOutput # None
    /\ PositiveAt(irInput.results) # {}
    /\ NegativeAt(irInput.results) = {}
    /\ irInput.results[First(PositiveAt(irInput.results))].value = Half
    /\ irOutput[1].hasParkinson = FALSE
    /\ irOutput[1].confidence = Scale - Half

IsFallback(result, out) ==
    /\ out.message = <<"inconclusive">>
    /\ out.confidence = Half
    /\ out.hasParkinson = result.anomaly

\* C7 as stated: the fallback interpretation is given exactly when no label
\* matches either pattern.
C7_FallbackIffNoMatch ==
    irOutput # None =>
        (IsFallback(irInput, irOutput[1])
            <=> (PositiveAt(irInput.results) = {}
                 /\ NegativeAt(irInput.results) = {}))

\* C7 amended: the fallback interpretation is given exactly when no label
\* matches 'parkinson'/'positive', whether or not one matches
\* 'healthy'/'negative'.
C7_FallbackIffNoPositive ==
    irOutput # None =>
        /\ IsFallback(irInput, irOutput[1]) <=> PositiveAt(irInput.results) = {}
        /\ irOutput[1].message = <<"inconclusive">>
               <=> PositiveAt(irInput.results) = {}

\* C7 witness: a healthy/negative label without a positive one, given the
\* fallback interpretation.
C7_Witness ==
    /\ irOutput # None
    /\ PositiveAt(irInput.results) = {}
    /\ NegativeAt(irInput.results) # {}
    /\ IsFallback(irInput, irOutput[1])

\* C8: an empty staged upload yields no feature vector; the request fails
\* with InvalidAudioError and leaves no staged file.
C8_EmptyUploadRejected ==
    \A r \in Requests :
        (readFrom[r] # None /\ readFrom[r][1].size = 0) =>
            /\ features[r] = None
            /\ Done(r) =>
                   /\ response[r][1].success = FALSE
                   /\ thrown[r] = "InvalidAudioError"
                   /\ leftover[r] = FALSE

\* C9: a classification result is only ever produced from a vector that
\* has the configured feature count and the model's input length.
C9_FeatureShape ==
    \A r \in Requests :
        (response[r] # None /\ response[r][1].success) =>
            /\ Len(features[r][1]) = configNumFeatures
            /\ Len(features[r][1]) = inputLength

\* C10 as stated: reordering the scores (unique non-empty labels) leaves
\* hasParkinson, confidence and message as they were.
C10_OrderIrrelevant ==
    irPrev # None => irOutput[1] = irPrev[1].output

\* C10 amended: the same, for results in which at most one label matches
\* 'parkinson'/'positive' and at most one matches 'healthy'/'negative'.
C10_OrderIrrelevantSingleMatch ==
    (/\ irPrev # None
     /\ Cardinality(PositiveAt(irInput.results)) <= 1
     /\ Cardinality(NegativeAt(irInput.results)) <= 1)
        => irOutput[1] = irPrev[1].output

\* C10 witness: one positive and one negative score, interpreted in both
\* orders.
C10_Witness ==
    /\ irPrev # None
    /\ irInput.results # irPrev[1].input.results
    /\ Cardinality(PositiveAt(irInput.results)) = 1
    /\ Cardinality(NegativeAt(irInput.results)) = 1
    /\ irOutput[1].hasParkinson = FALSE

=============================================================================
